---- MODULE Spec2Model ----
(***************************************************************************)
(* Employee Benefits Compliance Tracker (benefits_compliance_tracker.py).  *)
(*                                                                         *)
(* The script is a linear batch run: imports, data provision (synthetic    *)
(* generation or CSV load), CSV export, three SQL aggregations, KPI        *)
(* arithmetic, result CSVs, the HTML report and the optional charts.       *)
(* The model keeps the columns the aggregations and KPIs read; names,      *)
(* e-mail, hire date, plan catalogue columns, exception type and severity  *)
(* are not read by any of them and are left out.                           *)
(***************************************************************************)
EXTENDS Integers, Sequences, FiniteSets

(***************************************************************************)
(* Python floats (IEEE-754 binary64, round to nearest, ties to even).      *)
(* A non-negative double is held exactly, as a natural number counted in   *)
(* units of 2^-FracBits and written in NLimbs limbs of LimbBits bits,      *)
(* least significant limb first.  Every double between 2^-17 and 2^28 is   *)
(* such a number; the KPI arithmetic stays inside that range.              *)
(***************************************************************************)
LimbBits == 14

NLimbs == 7

FracLimbs == 5

LimbBase == 2 ^ LimbBits

FracBits == FracLimbs * LimbBits

MantissaBits == 53

FZero == [i \in 1..NLimbs |-> 0]

\* int -> float conversion (exact for the counts of the model)
FromInt(k) ==
  [i \in 1..NLimbs |->
     IF i = FracLimbs + 1 THEN k % LimbBase
     ELSE IF i = FracLimbs + 2 THEN k \div LimbBase
     ELSE 0]

RECURSIVE AddFrom(_, _, _, _)
AddFrom(a, b, i, c) ==
  IF i > NLimbs THEN <<>>
  ELSE LET s == a[i] + b[i] + c
       IN  <<s % LimbBase>> \o AddFrom(a, b, i + 1, s \div LimbBase)

\* exact sum of two fixed-point numbers
ExactAdd(a, b) == AddFrom(a, b, 1, 0)

RECURSIVE MulFrom(_, _, _, _)
MulFrom(a, k, i, c) ==
  IF i > NLimbs THEN <<>>
  ELSE LET s == a[i] * k + c
       IN  <<s % LimbBase>> \o MulFrom(a, k, i + 1, s \div LimbBase)

\* exact product of a fixed-point number and a small natural number
ExactMul(a, k) == MulFrom(a, k, 1, 0)

RECURSIVE DivFrom(_, _, _, _)
DivFrom(a, n, i, r) ==
  IF i = 0 THEN [q |-> <<>>, r |-> r]
  ELSE LET t    == r * LimbBase + a[i]
           rest == DivFrom(a, n, i - 1, t % n)
       IN  [q |-> rest.q \o <<t \div n>>, r |-> rest.r]

\* floor of a / n in units of 2^-FracBits, and the remainder of the division
ExactDiv(a, n) == DivFrom(a, n, NLimbs, 0)

RECURSIVE TopLimb(_, _)
TopLimb(a, i) == IF i = 0 THEN 0 ELSE IF a[i] # 0 THEN i ELSE TopLimb(a, i - 1)

RECURSIVE BitLen(_)
BitLen(v) == IF v = 0 THEN 0 ELSE 1 + BitLen(v \div 2)

\* index (from 0) of the most significant set bit; -1 for zero
TopBit(a) ==
  LET i == TopLimb(a, NLimbs)
  IN  IF i = 0 THEN -1 ELSE (i - 1) * LimbBits + BitLen(a[i]) - 1

BitAt(a, pos) == (a[(pos \div LimbBits) + 1] \div (2 ^ (pos % LimbBits))) % 2

AnyBelow(a, pos) ==
  \/ \E i \in 1..(pos \div LimbBits) : a[i] # 0
  \/ a[(pos \div LimbBits) + 1] % (2 ^ (pos % LimbBits)) # 0

Truncate(a, pos) ==
  [i \in 1..NLimbs |->
     IF i < (pos \div LimbBits) + 1 THEN 0
     ELSE IF i = (pos \div LimbBits) + 1
          THEN a[i] - (a[i] % (2 ^ (pos % LimbBits)))
     ELSE a[i]]

Pow2(pos) ==
  [i \in 1..NLimbs |-> IF i = (pos \div LimbBits) + 1 THEN 2 ^ (pos % LimbBits) ELSE 0]

\* round an exact value (plus a sticky flag for what lies below the last
\* unit) to the nearest double, ties to even
Round53(a, sticky) ==
  LET p == TopBit(a)
      j == p - (MantissaBits - 1)
  IN  IF j <= 0 THEN a
      ELSE LET half == BitAt(a, j - 1) = 1
               low  == sticky \/ AnyBelow(a, j - 1)
               odd  == BitAt(a, j) = 1
               t    == Truncate(a, j)
           IN  IF half /\ (low \/ odd) THEN ExactAdd(t, Pow2(j)) ELSE t

\* float + float
FAdd(a, b) == Round53(ExactAdd(a, b), FALSE)

\* float * small integer (the integer converts to a float exactly)
FMulInt(a, k) == Round53(ExactMul(a, k), FALSE)

\* float / small integer
FDivInt(a, n) ==
  LET d == ExactDiv(a, n) IN Round53(d.q, d.r # 0)

RECURSIVE CmpFrom(_, _, _)
CmpFrom(a, b, i) ==
  IF i = 0 THEN 0
  ELSE IF a[i] < b[i] THEN -1
  ELSE IF a[i] > b[i] THEN 1
  ELSE CmpFrom(a, b, i - 1)

FLe(a, b) == CmpFrom(a, b, NLimbs) <= 0

FMin3(a, b, c) ==
  LET m == IF FLe(a, b) THEN a ELSE b IN IF FLe(m, c) THEN m ELSE c

FMax3(a, b, c) ==
  LET m == IF FLe(a, b) THEN b ELSE a IN IF FLe(m, c) THEN c ELSE m

(***************************************************************************)
(* Sizes of the model.  The script generates 150 employees, 5 departments, *)
(* 5 plans and 20 exceptions; the model scales them down.                  *)
(***************************************************************************)
\* n_employees
NEmployees == 2

\* rows of departments_df
NDepartments == 2

\* rows of plans_df
NPlans == 2

\* size of the exception sample drawn from the employees
NExceptions == 1

\* rows of enrollment_data.csv plus rows of exceptions_data.csv when loading
MaxLoadRows == 2

\* the run date, datetime.now().date() and CURRENT_DATE, as a day number
Today == 0

\* np.random.randint(2, 5): the lower end of num_plans
MinPlans == 2

\* np.random.randint(30, 365): the lower end of the enrollment age in days
MinEnrollmentAge == 30

\* number of enrollment ages the model draws from, starting at MinEnrollmentAge
EnrollmentAges == 2

\* election_deadline = enrollment_date + timedelta(days=30)
DeadlineDays == 30

\* plan_start_date = enrollment_date + timedelta(days=60)
PlanStartDays == 60

\* eligibility_end_date = now + timedelta(days=30) for an inactive employee
EligibilityGraceDays == 30

\* the largest count SpecKpi feeds to the KPI arithmetic
MaxCount == 9

DepartmentNames ==
  <<"Human Resources", "Finance", "Engineering", "Sales", "Operations">>

EmploymentStatuses == {"Active", "Inactive"}

EnrollmentStatuses == {"Enrolled", "Pending", "Declined"}

ResolutionStatuses == {"Open", "Resolved"}

\* a missing value: pd.NaT in a DataFrame, NULL in a query result
NaT == <<>>

\* a present value of a nullable column
Some(v) == <<v>>

DataFiles ==
  {"employees_data.csv", "departments_data.csv", "plans_data.csv",
   "enrollment_data.csv", "eligibility_data.csv", "exceptions_data.csv"}

ResultFiles ==
  {"enrollment_status_summary.csv", "overdue_enrollments.csv",
   "department_overview.csv", "kpis.csv"}

ReportFile == "compliance_report.html"

ChartFiles == <<"chart_enrollment_status.html", "chart_dept_enrollment_rate.html">>

VARIABLES
  pc,                  \* position of the run in the script
  USE_EXISTING_INPUT,  \* the toggle, together with os.path.isdir(INPUT_DIR)
  HAS_PLOTLY,
  exit_message,        \* argument of SystemExit, "" while none was raised
  employees_df, departments_df, plans_df,
  enrollment_df, eligibility_df, exceptions_df,
  records, elig_records, exc_records,
  emp_idx,             \* position of the generation loop over the employees
  chosen,              \* plans (or sampled employees) the current loop still has to visit
  files,               \* files written below OUT_DIR
  q_enrollment_status, q_overdue, q_dept_overview,
  active_employees, enrolled_unique, pendings, overdue_count,
  open_ex, resolved_ex, total_enrollments,
  enrollment_rate, exception_resolution_rate, deadline_adherence_rate,
  overall_compliance_score,
  chart_error          \* whether "Chart generation skipped" was printed

tables == <<employees_df, departments_df, plans_df,
            enrollment_df, eligibility_df, exceptions_df>>

gen == <<records, elig_records, exc_records, emp_idx, chosen>>

queries == <<q_enrollment_status, q_overdue, q_dept_overview>>

counts == <<active_employees, enrolled_unique, pendings, overdue_count,
            open_ex, resolved_ex, total_enrollments>>

rates == <<enrollment_rate, exception_resolution_rate, deadline_adherence_rate,
           overall_compliance_score>>

env == <<USE_EXISTING_INPUT, HAS_PLOTLY, exit_message, chart_error>>

vars == <<pc, env, tables, gen, files, queries, counts, rates>>

(***************************************************************************)
(* Sequences                                                               *)
(***************************************************************************)
Range(s) == {s[i] : i \in 1..Len(s)}

\* positions of the rows of s whose column has one of the values
RowsWhere(s, column, values) == {i \in 1..Len(s) : s[i][column] \in values}

RECURSIVE InsertSorted(_, _, _)
InsertSorted(perm, i, keys) ==
  IF perm = <<>> THEN <<i>>
  ELSE IF keys[perm[Len(perm)]] <= keys[i] THEN Append(perm, i)
  ELSE Append(InsertSorted(SubSeq(perm, 1, Len(perm) - 1), i, keys), perm[Len(perm)])

RECURSIVE SortFrom(_, _)
SortFrom(keys, i) ==
  IF i = 0 THEN <<>> ELSE InsertSorted(SortFrom(keys, i - 1), i, keys)

\* ORDER BY keys[i] ascending: rows with equal keys keep their order, which is
\* one of the orders the engine may return
SortBy(s, keys) ==
  LET perm == SortFrom(keys, Len(s)) IN [i \in 1..Len(s) |-> s[perm[i]]]

\* all sequences over S of length at most n
RECURSIVE SeqsUpTo(_, _)
SeqsUpTo(S, n) ==
  IF n = 0 THEN {<<>>}
  ELSE LET shorter == SeqsUpTo(S, n - 1)
       IN  shorter \cup {Append(s, x) : s \in {t \in shorter : Len(t) = n - 1}, x \in S}

\* the ascending sequence of a set of numbers
RECURSIVE Ascending(_)
Ascending(S) ==
  IF S = {} THEN <<>>
  ELSE LET m == CHOOSE x \in S : \A y \in S : x <= y
       IN  <<m>> \o Ascending(S \ {m})

(***************************************************************************)
(* Rows of the six tables                                                  *)
(***************************************************************************)
DepartmentIds == 1..NDepartments

PlanIds == 1..NPlans

EmployeeRow(id, dept, status) ==
  [employee_id |-> id, department_id |-> dept, employment_status |-> status]

\* EnrollmentRow with the plan start date set whatever the status
EnrollmentRowAlwaysStarted(id, emp, plan, enrollment_date, status) ==
  [enrollment_id     |-> id,
   employee_id       |-> emp,
   plan_id           |-> plan,
   enrollment_date   |-> enrollment_date,
   election_deadline |-> enrollment_date + DeadlineDays,
   plan_start_date   |-> Some(enrollment_date + PlanStartDays),
   enrollment_status |-> status]

\* one enrollment record, lines 114-122
EnrollmentRow(id, emp, plan, enrollment_date, status) ==
  [enrollment_id     |-> id,
   employee_id       |-> emp,
   plan_id           |-> plan,
   enrollment_date   |-> enrollment_date,
   election_deadline |-> enrollment_date + DeadlineDays,
   plan_start_date   |-> IF status = "Enrolled"
                         THEN Some(enrollment_date + PlanStartDays) ELSE NaT,
   enrollment_status |-> status]

\* one eligibility record, lines 128-135
EligibilityRow(e) ==
  [eligibility_id       |-> e.employee_id,
   employee_id          |-> e.employee_id,
   eligibility_end_date |-> IF e.employment_status = "Active"
                            THEN NaT ELSE Some(Today + EligibilityGraceDays),
   is_active            |-> IF e.employment_status = "Active" THEN 1 ELSE 0]

\* one exception record, lines 144-152
ExceptionRow(id, emp, exception_date, status, delay) ==
  [exception_id      |-> id,
   employee_id       |-> emp,
   exception_date    |-> exception_date,
   resolution_status |-> status,
   resolved_date     |-> IF status = "Resolved" THEN Some(exception_date + delay) ELSE NaT]

\* departments_df of the generator, lines 79-82
GeneratedDepartments ==
  [i \in 1..NDepartments |-> [department_id |-> i, department_name |-> DepartmentNames[i]]]

\* plans_df, lines 97-103
PlansCatalogue == [i \in 1..NPlans |-> [plan_id |-> i]]

\* np.random.randint(30, 365)
EnrollmentAgeChoices == MinEnrollmentAge..(MinEnrollmentAge + EnrollmentAges - 1)

\* np.random.randint(0, 90) and np.random.randint(1, 30): the model draws the
\* lower end, no query or KPI reads these dates
ExceptionAgeChoices == {0}

ResolveDelayChoices == {1}

\* np.random.randint(2, 5), capped by the catalogue
NumPlansChoices == MinPlans..NPlans

\* np.random.choice(plans_df['plan_id'], num_plans, replace=False): the plans
\* drawn, visited here in ascending order
PlanDraws == {Ascending(S) : S \in {T \in SUBSET PlanIds : Cardinality(T) \in NumPlansChoices}}

(***************************************************************************)
(* Tables read from ./input (lines 58-76).  read_csv checks nothing, so    *)
(* the model reads any table that has the columns and value domains of the *)
(* generated ones: keys are unique, every enrollment, eligibility and      *)
(* exception row names an employee of employees_data.csv, but an           *)
(* employee's department_id need not occur in departments_data.csv and two *)
(* departments may carry one name.                                         *)
(***************************************************************************)
LoadableEmployees ==
  {[i \in 1..Len(s) |-> EmployeeRow(i, s[i][1], s[i][2])] :
     s \in SeqsUpTo((1..(NDepartments + 1)) \X EmploymentStatuses, NEmployees)}

LoadableDepartments ==
  {[i \in 1..NDepartments |-> [department_id |-> i, department_name |-> DepartmentNames[f[i]]]] :
     f \in {g \in [1..NDepartments -> 1..NDepartments] : \A i \in 1..NDepartments : g[i] <= i}}

LoadableEnrollment(n) ==
  {[i \in 1..Len(s) |->
      EnrollmentRow(i, s[i][1], ((i - 1) % NPlans) + 1,
                    Today - s[i][2], s[i][3])] :
     s \in SeqsUpTo((1..n) \X EnrollmentAgeChoices \X EnrollmentStatuses, MaxLoadRows)}

LoadableExceptions(n, max) ==
  {[i \in 1..Len(s) |-> ExceptionRow(i, s[i][1], Today, s[i][2], 1)] :
     s \in SeqsUpTo((1..n) \X ResolutionStatuses, max)}

(***************************************************************************)
(* The run                                                                 *)
(***************************************************************************)
NoResults ==
  /\ q_enrollment_status = <<>> /\ q_overdue = <<>> /\ q_dept_overview = <<>>
  /\ active_employees = 0 /\ enrolled_unique = 0 /\ pendings = 0
  /\ overdue_count = 0 /\ open_ex = 0 /\ resolved_ex = 0 /\ total_enrollments = 0
  /\ enrollment_rate = FZero /\ exception_resolution_rate = FZero
  /\ deadline_adherence_rate = FZero /\ overall_compliance_score = FZero

NoTables ==
  /\ employees_df = <<>> /\ departments_df = <<>> /\ plans_df = <<>>
  /\ enrollment_df = <<>> /\ eligibility_df = <<>> /\ exceptions_df = <<>>
  /\ records = <<>> /\ elig_records = <<>> /\ exc_records = <<>>
  /\ emp_idx = 0 /\ chosen = <<>>

Init ==
  /\ pc = "import_duckdb"
  /\ USE_EXISTING_INPUT \in BOOLEAN
  /\ HAS_PLOTLY = FALSE
  /\ exit_message = ""
  /\ chart_error = FALSE
  /\ files = {}
  /\ NoTables
  /\ NoResults

\* lines 23-26
ImportDuckdb ==
  /\ pc = "import_duckdb"
  /\ \E installed \in BOOLEAN :
       IF installed
       THEN pc' = "import_plotly" /\ exit_message' = exit_message
       ELSE pc' = "exit" /\ exit_message' = "Please install duckdb: pip install duckdb"
  /\ UNCHANGED <<USE_EXISTING_INPUT, HAS_PLOTLY, chart_error, tables, gen, files,
                 queries, counts, rates>>

\* lines 29-33
ImportPlotly ==
  /\ pc = "import_plotly"
  /\ HAS_PLOTLY' \in BOOLEAN
  /\ pc' = "provide"
  /\ UNCHANGED <<USE_EXISTING_INPUT, exit_message, chart_error, tables, gen, files,
                 queries, counts, rates>>

\* lines 58-76
LoadInput ==
  /\ pc = "provide"
  /\ USE_EXISTING_INPUT
  /\ employees_df' \in LoadableEmployees
  /\ departments_df' \in LoadableDepartments
  /\ plans_df' = PlansCatalogue
  /\ enrollment_df' \in LoadableEnrollment(Len(employees_df'))
  /\ eligibility_df' = [i \in 1..Len(employees_df') |-> EligibilityRow(employees_df'[i])]
  /\ exceptions_df' \in LoadableExceptions(Len(employees_df'), MaxLoadRows - Len(enrollment_df'))
  /\ pc' = "export"
  /\ UNCHANGED <<env, gen, files, queries, counts, rates>>

\* lines 78-103 and the set-up of the enrollment loop, line 106
GenerateEmployees ==
  /\ pc = "provide"
  /\ ~USE_EXISTING_INPUT
  /\ departments_df' = GeneratedDepartments
  /\ employees_df' \in
       {[i \in 1..NEmployees |-> EmployeeRow(i, f[i][1], f[i][2])] :
          f \in [1..NEmployees -> DepartmentIds \X EmploymentStatuses]}
  /\ plans_df' = PlansCatalogue
  /\ records' = <<>>
  /\ emp_idx' = 1
  /\ chosen' = <<>>
  /\ pc' = "gen_enrollment"
  /\ UNCHANGED <<env, enrollment_df, eligibility_df, exceptions_df, elig_records,
                 exc_records, files, queries, counts, rates>>

\* line 108, an employee that is not Active gets no enrollment
GenSkipInactive ==
  /\ pc = "gen_enrollment"
  /\ emp_idx <= Len(employees_df)
  /\ employees_df[emp_idx].employment_status # "Active"
  /\ emp_idx' = emp_idx + 1
  /\ UNCHANGED <<pc, env, tables, records, elig_records, exc_records, chosen, files,
                 queries, counts, rates>>

\* lines 109-110
GenChoosePlans ==
  /\ pc = "gen_enrollment"
  /\ emp_idx <= Len(employees_df)
  /\ employees_df[emp_idx].employment_status = "Active"
  /\ chosen = <<>>
  /\ chosen' \in PlanDraws
  /\ UNCHANGED <<pc, env, tables, records, elig_records, exc_records, emp_idx, files,
                 queries, counts, rates>>

\* lines 111-122, one pass of the inner loop
GenEnrollmentRecord ==
  /\ pc = "gen_enrollment"
  /\ chosen # <<>>
  /\ \E age \in EnrollmentAgeChoices, status \in EnrollmentStatuses :
       records' = Append(records,
                         EnrollmentRow(Len(records) + 1, employees_df[emp_idx].employee_id,
                                       Head(chosen), Today - age, status))
  /\ chosen' = Tail(chosen)
  /\ emp_idx' = IF Tail(chosen) = <<>> THEN emp_idx + 1 ELSE emp_idx
  /\ UNCHANGED <<pc, env, tables, elig_records, exc_records, files, queries, counts, rates>>

\* line 123 and the set-up of the eligibility loop, line 126
FinishEnrollment ==
  /\ pc = "gen_enrollment"
  /\ emp_idx > Len(employees_df)
  /\ enrollment_df' = records
  /\ elig_records' = <<>>
  /\ emp_idx' = 1
  /\ pc' = "gen_eligibility"
  /\ UNCHANGED <<env, employees_df, departments_df, plans_df, eligibility_df,
                 exceptions_df, records, exc_records, chosen, files, queries, counts, rates>>

\* lines 127-135, one pass of the loop
GenEligibilityRecord ==
  /\ pc = "gen_eligibility"
  /\ emp_idx <= Len(employees_df)
  /\ elig_records' = Append(elig_records, EligibilityRow(employees_df[emp_idx]))
  /\ emp_idx' = emp_idx + 1
  /\ UNCHANGED <<pc, env, tables, records, exc_records, chosen, files, queries, counts, rates>>

\* line 136 and the draw of the exception sample, lines 139-140:
\* np.random.choice(employees_df['employee_id'], 20, replace=False)
FinishEligibility ==
  /\ pc = "gen_eligibility"
  /\ emp_idx > Len(employees_df)
  /\ eligibility_df' = elig_records
  /\ exc_records' = <<>>
  /\ chosen' \in {s \in SeqsUpTo({e.employee_id : e \in Range(employees_df)}, NExceptions) :
                    /\ Len(s) = NExceptions
                    /\ \A i, j \in 1..Len(s) : i # j => s[i] # s[j]}
  /\ pc' = "gen_exceptions"
  /\ UNCHANGED <<env, employees_df, departments_df, plans_df, enrollment_df,
                 exceptions_df, records, elig_records, emp_idx, files, queries, counts, rates>>

\* lines 141-152, one pass of the loop
GenExceptionRecord ==
  /\ pc = "gen_exceptions"
  /\ chosen # <<>>
  /\ \E age \in ExceptionAgeChoices, status \in ResolutionStatuses,
        delay \in ResolveDelayChoices :
       exc_records' = Append(exc_records,
                             ExceptionRow(Len(exc_records) + 1, Head(chosen),
                                          Today - age, status, delay))
  /\ chosen' = Tail(chosen)
  /\ UNCHANGED <<pc, env, tables, records, elig_records, emp_idx, files, queries, counts, rates>>

\* line 153
FinishExceptions ==
  /\ pc = "gen_exceptions"
  /\ chosen = <<>>
  /\ exceptions_df' = exc_records
  /\ pc' = "export"
  /\ UNCHANGED <<env, employees_df, departments_df, plans_df, enrollment_df,
                 eligibility_df, gen, files, queries, counts, rates>>

\* export_all, lines 156-167
ExportAll ==
  /\ pc = "export"
  /\ files' = files \cup DataFiles
  /\ pc' = "queries"
  /\ UNCHANGED <<env, tables, gen, queries, counts, rates>>

(***************************************************************************)
(* SQL over the DataFrames, lines 178-223                                  *)
(***************************************************************************)
StatusOrder == <<"Enrolled", "Pending", "Declined">>

\* SELECT enrollment_status, COUNT(*) AS ct FROM benefits_enrollment
\* GROUP BY 1 ORDER BY 2 DESC
EnrollmentStatusQuery(enrollment) ==
  LET present == SelectSeq(StatusOrder,
                           LAMBDA st : \E i \in 1..Len(enrollment) :
                                         enrollment[i].enrollment_status = st)
      groups  == [g \in 1..Len(present) |->
                    [enrollment_status |-> present[g],
                     ct |-> Cardinality(RowsWhere(enrollment, "enrollment_status",
                                                     {present[g]}))]]
  IN  SortBy(groups, [g \in 1..Len(groups) |-> 0 - groups[g].ct])

\* WHERE be.election_deadline < CURRENT_DATE AND be.enrollment_status <> 'Enrolled'
OverdueFilter(be) ==
  be.election_deadline < Today /\ be.enrollment_status # "Enrolled"

\* FROM employees e JOIN benefits_enrollment be USING(employee_id)
\*                  JOIN departments d ON e.department_id = d.department_id
OverdueJoin(employees, enrollment, departments) ==
  LET E == Len(employees)
      B == Len(enrollment)
      D == Len(departments)
      all == [n \in 1..(E * B * D) |->
                [e  |-> employees[((n - 1) \div (B * D)) + 1],
                 be |-> enrollment[(((n - 1) \div D) % B) + 1],
                 d  |-> departments[((n - 1) % D) + 1]]]
  IN  SelectSeq(all, LAMBDA t : /\ t.e.employee_id = t.be.employee_id
                                /\ t.e.department_id = t.d.department_id)

\* q_overdue, lines 195-204
OverdueQuery(employees, enrollment, departments) ==
  LET joined == SelectSeq(OverdueJoin(employees, enrollment, departments),
                          LAMBDA t : OverdueFilter(t.be))
      rows   == [n \in 1..Len(joined) |->
                   [employee_id       |-> joined[n].e.employee_id,
                    department_name   |-> joined[n].d.department_name,
                    plan_id           |-> joined[n].be.plan_id,
                    enrollment_date   |-> joined[n].be.enrollment_date,
                    election_deadline |-> joined[n].be.election_deadline]]
  IN  SortBy(rows, [n \in 1..Len(rows) |-> rows[n].election_deadline])

\* WITH enrolled AS (SELECT DISTINCT employee_id FROM benefits_enrollment
\*                   WHERE enrollment_status = 'Enrolled')
EnrolledCte(enrollment) ==
  {enrollment[i].employee_id :
     i \in {j \in 1..Len(enrollment) : enrollment[j].enrollment_status = "Enrolled"}}

\* one row of  departments d LEFT JOIN employees e LEFT JOIN enrolled en
\*             LEFT JOIN compliance_exceptions ce ;
\* k, i and x are the positions of the joined rows in their tables and keep
\* apart the rows that agree on every column; 0 stands for no matching row
OverviewJoinRow(departments, employees, enrolled, exceptions, k, i, x) ==
  [d  |-> k, e |-> i, ce |-> x,
   department_name      |-> departments[k].department_name,
   e_employee_id        |-> IF i = 0 THEN NaT ELSE Some(employees[i].employee_id),
   en_employee_id       |-> IF i # 0 /\ employees[i].employee_id \in enrolled
                            THEN Some(employees[i].employee_id) ELSE NaT,
   ce_exception_id      |-> IF x = 0 THEN NaT ELSE Some(exceptions[x].exception_id),
   ce_resolution_status |-> IF x = 0 THEN NaT ELSE Some(exceptions[x].resolution_status)]

\* the FROM clause of q_dept_overview, lines 217-220
OverviewJoin(departments, employees, enrollment, exceptions) ==
  LET enrolled == EnrolledCte(enrollment)
      EmpOf(k) == {i \in 1..Len(employees) :
                     employees[i].department_id = departments[k].department_id}
      ExcOf(i) == {x \in 1..Len(exceptions) :
                     exceptions[x].employee_id = employees[i].employee_id}
      Row(k, i, x) == OverviewJoinRow(departments, employees, enrolled, exceptions, k, i, x)
  IN  UNION {IF EmpOf(k) = {} THEN {Row(k, 0, 0)}
             ELSE UNION {IF ExcOf(i) = {} THEN {Row(k, i, 0)}
                         ELSE {Row(k, i, x) : x \in ExcOf(i)} : i \in EmpOf(k)} :
             k \in 1..Len(departments)}

\* COUNT(DISTINCT e.employee_id)
CountDistinctEmployees(group) ==
  Cardinality({r.e_employee_id : r \in {t \in group : t.e_employee_id # NaT}})

\* COUNT(DISTINCT en.employee_id)
CountDistinctEnrolled(group) ==
  Cardinality({r.en_employee_id : r \in {t \in group : t.en_employee_id # NaT}})

\* COUNT(DISTINCT CASE WHEN ce.resolution_status = 'Open' THEN ce.exception_id END)
CountDistinctOpen(group) ==
  Cardinality({r.ce_exception_id :
                 r \in {t \in group : t.ce_resolution_status = Some("Open")}})

\* RoundedRate with the NULL turned into 0: COALESCE(..., 0)
RoundedRateCoalesced(enrolled, total) ==
  IF total = 0 THEN Some(0)
  ELSE Some((2 * enrolled * 10000 + total) \div (2 * total))

\* RoundedRate with a factor of 1000.0 for 100.0
RoundedRatePerMille(enrolled, total) ==
  IF total = 0 THEN NaT
  ELSE Some((2 * enrolled * 100000 + total) \div (2 * total))

\* ROUND(enrolled * 100.0 / NULLIF(total, 0), 2), in hundredths of a percent;
\* NULLIF makes the divisor NULL, and with it the quotient, when total is 0
RoundedRate(enrolled, total) ==
  IF total = 0 THEN NaT
  ELSE Some((2 * enrolled * 10000 + total) \div (2 * total))

\* GROUP BY 1: the grouping key is d.department_name
OverviewGroup(joined, name) == {r \in joined : r.department_name = name}

\* q_dept_overview, lines 206-223
DeptOverviewQuery(departments, employees, enrollment, exceptions) ==
  LET joined == OverviewJoin(departments, employees, enrollment, exceptions)
      first  == {k \in 1..Len(departments) :
                   \A m \in 1..(k - 1) :
                     departments[m].department_name # departments[k].department_name}
      keys   == Ascending(first)
      rows   == [g \in 1..Len(keys) |->
                   LET name  == departments[keys[g]].department_name
                       group == OverviewGroup(joined, name)
                   IN  [department_name    |-> name,
                        total_employees    |-> CountDistinctEmployees(group),
                        enrolled_employees |-> CountDistinctEnrolled(group),
                        enrollment_rate    |-> RoundedRate(CountDistinctEnrolled(group),
                                                           CountDistinctEmployees(group)),
                        open_exceptions    |-> CountDistinctOpen(group)]]
  IN  \* ORDER BY enrollment_rate DESC NULLS LAST
      SortBy(rows, [g \in 1..Len(rows) |->
                      IF rows[g].enrollment_rate = NaT THEN 1
                      ELSE 0 - rows[g].enrollment_rate[1]])

\* pd.DataFrame(records) of an empty list has no columns at all, and a query
\* that names a column of it fails; read_csv always yields the header's columns
HasColumns(df) == USE_EXISTING_INPUT \/ Len(df) > 0

\* lines 178-223
RunQueries ==
  /\ pc = "queries"
  /\ IF HasColumns(enrollment_df) /\ HasColumns(exceptions_df)
     THEN /\ q_enrollment_status' = EnrollmentStatusQuery(enrollment_df)
          /\ q_overdue' = OverdueQuery(employees_df, enrollment_df, departments_df)
          /\ q_dept_overview' = DeptOverviewQuery(departments_df, employees_df,
                                                  enrollment_df, exceptions_df)
          /\ pc' = "kpis"
     ELSE /\ pc' = "crashed"
          /\ UNCHANGED queries
  /\ UNCHANGED <<env, tables, gen, files, counts, rates>>

(***************************************************************************)
(* KPIs in Python, lines 227-246                                           *)
(***************************************************************************)
\* employees_df[employees_df['employment_status'] == 'Active']['employee_id'].nunique()
ActiveEmployees(employees) ==
  Cardinality({employees[i].employee_id :
                 i \in {j \in 1..Len(employees) : employees[j].employment_status = "Active"}})

\* enrollment_df[enrollment_df['enrollment_status'] == 'Enrolled']['employee_id'].nunique()
EnrolledUnique(enrollment) ==
  Cardinality({enrollment[i].employee_id :
                 i \in {j \in 1..Len(enrollment) : enrollment[j].enrollment_status = "Enrolled"}})

\* Pendings counting every row that is not Enrolled
PendingsNotEnrolled(enrollment) ==
  Cardinality(RowsWhere(enrollment, "enrollment_status", {"Pending", "Declined"}))

\* (enrollment_df['enrollment_status'] == 'Pending').sum()
Pendings(enrollment) ==
  Cardinality(RowsWhere(enrollment, "enrollment_status", {"Pending"}))

\* OverdueCount with <= for <: a deadline of today counts as missed
OverdueCountThroughToday(enrollment) ==
  Cardinality({i \in 1..Len(enrollment) :
                 /\ enrollment[i].election_deadline <= Today
                 /\ enrollment[i].enrollment_status # "Enrolled"})

\* lines 234-239
OverdueCount(enrollment) ==
  Cardinality({i \in 1..Len(enrollment) :
                 /\ enrollment[i].election_deadline < Today
                 /\ enrollment[i].enrollment_status # "Enrolled"})

\* lines 241-242
OpenEx(exceptions) == Cardinality(RowsWhere(exceptions, "resolution_status", {"Open"}))

ResolvedEx(exceptions) ==
  Cardinality(RowsWhere(exceptions, "resolution_status", {"Resolved"}))

\* part / whole * 100 in floats
Percent(part, whole) == FMulInt(FDivInt(FromInt(part), whole), 100)

\* line 232
EnrollmentRate(enrolled, active) ==
  IF active # 0 THEN Percent(enrolled, active) ELSE FZero

\* line 243
ExceptionResolutionRate(open, resolved) ==
  IF open + resolved # 0 THEN Percent(resolved, open + resolved) ELSE FZero

\* line 245
DeadlineAdherenceRate(total, overdue) ==
  IF total # 0 THEN Percent(total - overdue, total) ELSE FZero

\* MeanOfRates dividing by 2
MeanOfRatesHalved(a, b, c) ==
  {FDivInt(FAdd(FAdd(a, b), c), 2), FDivInt(FAdd(a, FAdd(b, c)), 2)}

\* line 246, float(np.mean([a, b, c])): the sum of the three floats divided by
\* 3.0; numpy does not fix the order of the two additions
MeanOfRates(a, b, c) ==
  {FDivInt(FAdd(FAdd(a, b), c), 3), FDivInt(FAdd(a, FAdd(b, c)), 3)}

\* lines 228-230, 234-242: the counts the rates are computed from
CountKpiInputs ==
  /\ pc = "kpis"
  /\ active_employees' = ActiveEmployees(employees_df)
  /\ enrolled_unique' = EnrolledUnique(enrollment_df)
  /\ pendings' = Pendings(enrollment_df)
  /\ overdue_count' = OverdueCount(enrollment_df)
  /\ open_ex' = OpenEx(exceptions_df)
  /\ resolved_ex' = ResolvedEx(exceptions_df)
  /\ total_enrollments' = Len(enrollment_df)
  /\ pc' = "rates"
  /\ UNCHANGED <<env, tables, gen, files, queries, rates>>

\* lines 232, 243, 245, 246
ComputeRates ==
  /\ pc = "rates"
  /\ enrollment_rate' = EnrollmentRate(enrolled_unique, active_employees)
  /\ exception_resolution_rate' = ExceptionResolutionRate(open_ex, resolved_ex)
  /\ deadline_adherence_rate' = DeadlineAdherenceRate(total_enrollments, overdue_count)
  /\ overall_compliance_score' \in
       MeanOfRates(enrollment_rate', exception_resolution_rate', deadline_adherence_rate')
  /\ pc' = "render"
  /\ UNCHANGED <<env, tables, gen, files, queries, counts>>

\* lines 248-307: kpi_df, the four result CSVs, then the HTML report
RenderOutputs ==
  /\ pc = "render"
  /\ files' = files \cup ResultFiles \cup {ReportFile}
  /\ pc' = "charts"
  /\ UNCHANGED <<env, tables, gen, queries, counts, rates>>

\* lines 314-324 and the closing prints, lines 326-333.  An exception of
\* either chart call is caught; the first chart is on disk when the second fails
ChartOutcomes ==
  IF HAS_PLOTLY
  THEN {[written |-> n, error |-> n < Len(ChartFiles)] : n \in 0..Len(ChartFiles)}
  ELSE {[written |-> 0, error |-> FALSE]}

\* RenderCharts without the try/except: a chart error ends the run
RenderChartsUncaught ==
  /\ pc = "charts"
  /\ \E o \in ChartOutcomes :
       /\ files' = files \cup {ChartFiles[n] : n \in 1..o.written}
       /\ chart_error' = o.error
       /\ pc' = IF o.error THEN "crashed" ELSE "done"
  /\ UNCHANGED <<USE_EXISTING_INPUT, HAS_PLOTLY, exit_message, tables, gen, queries,
                 counts, rates>>

RenderCharts ==
  /\ pc = "charts"
  /\ \E o \in ChartOutcomes :
       /\ files' = files \cup {ChartFiles[n] : n \in 1..o.written}
       /\ chart_error' = o.error
  /\ pc' = "done"
  /\ UNCHANGED <<USE_EXISTING_INPUT, HAS_PLOTLY, exit_message, tables, gen, queries,
                 counts, rates>>

Next ==
  \/ ImportDuckdb
  \/ ImportPlotly
  \/ LoadInput
  \/ GenerateEmployees
  \/ GenSkipInactive
  \/ GenChoosePlans
  \/ GenEnrollmentRecord
  \/ FinishEnrollment
  \/ GenEligibilityRecord
  \/ FinishEligibility
  \/ GenExceptionRecord
  \/ FinishExceptions
  \/ ExportAll
  \/ RunQueries
  \/ CountKpiInputs
  \/ ComputeRates
  \/ RenderOutputs
  \/ RenderCharts

Spec == Init /\ [][Next]_vars

(***************************************************************************)
(* The KPI arithmetic alone, as a function of the counts it reads          *)
(***************************************************************************)
InitKpi ==
  /\ pc = "rates"
  /\ USE_EXISTING_INPUT = TRUE
  /\ HAS_PLOTLY = FALSE
  /\ exit_message = ""
  /\ chart_error = FALSE
  /\ files = DataFiles
  /\ NoTables
  /\ q_enrollment_status = <<>> /\ q_overdue = <<>> /\ q_dept_overview = <<>>
  /\ active_employees \in 0..MaxCount
  /\ total_enrollments \in 0..MaxCount
  /\ overdue_count \in 0..total_enrollments
  /\ enrolled_unique \in 0..(total_enrollments - overdue_count)
  /\ pendings = overdue_count
  /\ open_ex \in 0..MaxCount
  /\ resolved_ex \in 0..(MaxCount - open_ex)
  /\ enrollment_rate = FZero /\ exception_resolution_rate = FZero
  /\ deadline_adherence_rate = FZero /\ overall_compliance_score = FZero

NextKpi == ComputeRates

SpecKpi == InitKpi /\ [][NextKpi]_vars

(***************************************************************************)
(* Properties                                                              *)
(***************************************************************************)
AfterQueries == pc \in {"kpis", "rates", "render", "charts", "done"}

AfterCounts == pc \in {"rates", "render", "charts", "done"}

AfterRates == pc \in {"render", "charts", "done"}

Synthesized == ~USE_EXISTING_INPUT

IsOverdue(r) == r.election_deadline < Today /\ r.enrollment_status # "Enrolled"

\* positions of the overdue rows of the enrollment table
OverdueRows == {j \in 1..Len(enrollment_df) : IsOverdue(enrollment_df[j])}

ActiveIds ==
  {e.employee_id : e \in {r \in Range(employees_df) : r.employment_status = "Active"}}

HasEnrolledRow(id) ==
  \E r \in Range(enrollment_df) : r.employee_id = id /\ r.enrollment_status = "Enrolled"

(* C1: enrollment_rate is the number of distinct Active employees with at  *)
(* least one Enrolled row, divided by the number of distinct Active        *)
(* employees, times 100, and 0 when there is no Active employee; Enrolled  *)
(* rows of employees that are not Active do not count.                     *)
C1_EnrollmentRateOfActive ==
  AfterRates =>
    enrollment_rate =
      IF ActiveIds = {} THEN FZero
      ELSE Percent(Cardinality({id \in ActiveIds : HasEnrolledRow(id)}),
                   Cardinality(ActiveIds))

\* one Active employee; one Enrolled row and one Pending row past its deadline
OneOfTwoOnTime ==
  /\ Cardinality(ActiveIds) = 1
  /\ Len(enrollment_df) = 2
  /\ \A r \in Range(enrollment_df) : r.employee_id \in ActiveIds
  /\ \E i, j \in 1..2 :
       /\ enrollment_df[i].enrollment_status = "Enrolled"
       /\ enrollment_df[j].enrollment_status = "Pending"
       /\ enrollment_df[j].election_deadline < Today

(* C2: deadline_adherence_rate is (rows - overdue rows) / rows * 100, an   *)
(* overdue row being one whose election deadline is before the run date    *)
(* and whose status is not Enrolled, and 0 for an empty enrollment table;  *)
(* one Enrolled row and one overdue Pending row of the only Active         *)
(* employee give enrollment_rate 100 and deadline_adherence_rate 50.       *)
C2_DeadlineAdherence ==
  AfterRates =>
    /\ deadline_adherence_rate =
         IF Len(enrollment_df) = 0 THEN FZero
         ELSE Percent(Len(enrollment_df) - Cardinality(OverdueRows),
                      Len(enrollment_df))
    /\ OneOfTwoOnTime =>
         /\ enrollment_rate = FromInt(100)
         /\ deadline_adherence_rate = FromInt(50)

C2_Witness == pc = "done" /\ OneOfTwoOnTime

RateMin == FMin3(enrollment_rate, exception_resolution_rate, deadline_adherence_rate)

RateMax == FMax3(enrollment_rate, exception_resolution_rate, deadline_adherence_rate)

\* the exact sum of the three rates
RateSum == ExactAdd(ExactAdd(enrollment_rate, exception_resolution_rate),
                    deadline_adherence_rate)

\* x * 2^-51, rounded down to a unit of 2^-FracBits
Slack(x) ==
  ExactDiv([i \in 1..NLimbs |-> IF i + 3 <= NLimbs THEN x[i + 3] ELSE 0],
           2 ^ (51 - 3 * LimbBits)).q

(* C5 as claimed: min of the three rates <= overall_compliance_score <=    *)
(* max of the three rates.                                                 *)
C5_ScoreBetweenMinAndMax ==
  AfterRates =>
    /\ FLe(RateMin, overall_compliance_score)
    /\ FLe(overall_compliance_score, RateMax)

(* C5 amended: overall_compliance_score is the mean of the three rates up  *)
(* to floating point rounding: 3 * score differs from the exact sum of the *)
(* rates by at most sum * 2^-51, and                                       *)
(* min * (1 - 2^-51) <= score <= max * (1 + 2^-51).                        *)
C5_ScoreBetweenMinAndMaxRounded ==
  AfterRates =>
    /\ FLe(ExactMul(overall_compliance_score, 3), ExactAdd(RateSum, Slack(RateSum)))
    /\ FLe(RateSum, ExactAdd(ExactMul(overall_compliance_score, 3), Slack(RateSum)))
    /\ FLe(RateMin, ExactAdd(overall_compliance_score, Slack(RateMin)))
    /\ FLe(overall_compliance_score, ExactAdd(RateMax, Slack(RateMax)))

\* the three rates are equal and the score is not among them
C5_Witness ==
  /\ AfterRates
  /\ active_employees > 0
  /\ enrollment_rate = exception_resolution_rate
  /\ enrollment_rate = deadline_adherence_rate
  /\ overall_compliance_score # enrollment_rate

StatusCount(st) ==
  LET rows == {i \in 1..Len(q_enrollment_status) :
                 q_enrollment_status[i].enrollment_status = st}
  IN  IF rows = {} THEN 0 ELSE q_enrollment_status[CHOOSE i \in rows : TRUE].ct

(* C6: pending_enrollments plus the Enrolled and the Declined counts of    *)
(* the status summary is the number of enrollment rows, and the summary    *)
(* has one row for each status that occurs.                                *)
C6_StatusCountsAddUp ==
  AfterCounts =>
    /\ pendings + StatusCount("Enrolled") + StatusCount("Declined") = Len(enrollment_df)
    /\ StatusCount("Pending") = pendings
    /\ \A i, k \in 1..Len(q_enrollment_status) :
         q_enrollment_status[i].enrollment_status = q_enrollment_status[k].enrollment_status
           => i = k

C6_Witness ==
  /\ pc = "done"
  /\ pendings > 0
  /\ StatusCount("Enrolled") > 0
  /\ StatusCount("Declined") > 0

\* the department names an employee id is joined to
DepartmentNamesOf(id) ==
  {d.department_name :
     d \in {x \in Range(departments_df) :
              \E e \in Range(employees_df) :
                e.employee_id = id /\ e.department_id = x.department_id}}

\* q_overdue row `row` shows enrollment row j
ShowsEnrollment(row, j) ==
  /\ row.employee_id = enrollment_df[j].employee_id
  /\ row.plan_id = enrollment_df[j].plan_id
  /\ row.enrollment_date = enrollment_df[j].enrollment_date
  /\ row.election_deadline = enrollment_df[j].election_deadline
  /\ row.department_name \in DepartmentNamesOf(enrollment_df[j].employee_id)

SameOverdueRow(j, k) ==
  /\ enrollment_df[j].employee_id = enrollment_df[k].employee_id
  /\ enrollment_df[j].plan_id = enrollment_df[k].plan_id
  /\ enrollment_df[j].enrollment_date = enrollment_df[k].enrollment_date
  /\ enrollment_df[j].election_deadline = enrollment_df[k].election_deadline

\* q_overdue holds one row for each enrollment row of J, nothing else, in
\* ascending order of the deadline
OverdueResultIs(J) ==
  /\ Len(q_overdue) = Cardinality(J)
  /\ \A i \in 1..Len(q_overdue) : \E j \in J : ShowsEnrollment(q_overdue[i], j)
  /\ \A j \in J :
       Cardinality({i \in 1..Len(q_overdue) : ShowsEnrollment(q_overdue[i], j)})
         = Cardinality({k \in J : SameOverdueRow(j, k)})
  /\ \A i, k \in 1..Len(q_overdue) :
       i < k => q_overdue[i].election_deadline <= q_overdue[k].election_deadline

(* C7: q_overdue holds exactly one row for each overdue         *)
(* enrollment row, so it has overdue_count rows, in ascending order of the *)
(* election deadline.                                                      *)
C7_OverdueRowsAll ==
  /\ AfterQueries => OverdueResultIs(OverdueRows)
  /\ AfterCounts => Len(q_overdue) = overdue_count

OpenExceptionIdsOf(ids) ==
  {x.exception_id :
     x \in {y \in Range(exceptions_df) :
              y.resolution_status = "Open" /\ y.employee_id \in ids}}

\* the overview has exactly one row named `name`, with the counts of `ids`
OverviewRowIs(name, ids) ==
  /\ Cardinality({i \in 1..Len(q_dept_overview) :
                    q_dept_overview[i].department_name = name}) = 1
  /\ \A i \in 1..Len(q_dept_overview) :
       q_dept_overview[i].department_name = name =>
         /\ q_dept_overview[i].total_employees = Cardinality(ids)
         /\ q_dept_overview[i].enrolled_employees
              = Cardinality({id \in ids : HasEnrolledRow(id)})
         /\ q_dept_overview[i].open_exceptions = Cardinality(OpenExceptionIdsOf(ids))

\* the employees of department row k alone
EmployeeIdsOfDepartment(k) ==
  {e.employee_id :
     e \in {x \in Range(employees_df) :
              x.department_id = departments_df[k].department_id}}

(* C8: every department has exactly one row in the overview,    *)
(* with its number of distinct employees, the number of them that have an  *)
(* Enrolled row, and the number of their distinct Open exceptions.         *)
C8_OneRowPerDepartment ==
  AfterQueries =>
    /\ Len(q_dept_overview) = Len(departments_df)
    /\ \A k \in 1..Len(departments_df) :
         OverviewRowIs(departments_df[k].department_name, EmployeeIdsOfDepartment(k))

EmployeeIds == {e.employee_id : e \in Range(employees_df)}

(* C9: in the synthesized data, at every step of the generation, an        *)
(* enrollment row has a plan_start_date exactly if it is Enrolled, an      *)
(* exception row has a resolved_date exactly if it is Resolved, and every  *)
(* enrollment, eligibility and exception row names an employee id of the   *)
(* employees table.                                                        *)
C9_GeneratedRowsConsistent ==
  Synthesized =>
    /\ \A r \in Range(records) \cup Range(enrollment_df) :
         /\ (r.plan_start_date # NaT) <=> (r.enrollment_status = "Enrolled")
         /\ r.employee_id \in EmployeeIds
    /\ \A r \in Range(exc_records) \cup Range(exceptions_df) :
         /\ (r.resolved_date # NaT) <=> (r.resolution_status = "Resolved")
         /\ r.employee_id \in EmployeeIds
    /\ \A r \in Range(elig_records) \cup Range(eligibility_df) :
         r.employee_id \in EmployeeIds

C9_Witness ==
  /\ Synthesized
  /\ pc = "export"
  /\ \E r \in Range(enrollment_df) : r.enrollment_status = "Enrolled"
  /\ \E r \in Range(enrollment_df) : r.enrollment_status = "Declined"
  /\ \E r \in Range(exceptions_df) : r.resolution_status = "Resolved"
  /\ Len(eligibility_df) = NEmployees

\* the stage of the run a position belongs to
Stage(p) ==
  CASE p \in {"import_duckdb", "import_plotly"} -> 0
    [] p \in {"provide", "gen_enrollment", "gen_eligibility", "gen_exceptions", "export"} -> 1
    [] p = "queries" -> 2
    [] p \in {"kpis", "rates"} -> 3
    [] p = "render" -> 4
    [] p = "charts" -> 5
    [] p = "done" -> 6
    [] OTHER -> 7

TenCsvFiles == DataFiles \cup ResultFiles

StagesLeaveTheirOutputs ==
  /\ Stage(pc) = 0 => files = {} /\ NoTables /\ NoResults
  /\ Stage(pc) = 1 => files \subseteq DataFiles /\ NoResults
  /\ pc \in {"provide", "gen_enrollment", "gen_eligibility", "gen_exceptions"} => files = {}
  /\ Stage(pc) \in 2..4 => files = DataFiles
  /\ Stage(pc) = 2 => NoResults
  /\ Stage(pc) \in 5..6 => TenCsvFiles \cup {ReportFile} \subseteq files
  /\ pc = "charts" => files = TenCsvFiles \cup {ReportFile}
  /\ pc = "done" =>
       /\ files \ (TenCsvFiles \cup {ReportFile}) \subseteq Range(ChartFiles)
       /\ ~HAS_PLOTLY => files = TenCsvFiles \cup {ReportFile} /\ ~chart_error
       /\ chart_error <=> HAS_PLOTLY /\ ~(Range(ChartFiles) \subseteq files)
  /\ chart_error => pc = "done"
  /\ pc = "exit" <=> exit_message # ""
  /\ pc = "exit" => files = {} /\ NoTables /\ NoResults

StagesFollowInOrder ==
  /\ Stage(pc) <= 6 /\ Stage(pc') <= 6 => Stage(pc') \in {Stage(pc), Stage(pc) + 1}
  /\ pc' = "exit" => pc \in {"import_duckdb", "exit"}
  /\ pc' = "crashed" => pc \in {"queries", "crashed"}
  /\ pc = "charts" => pc' \in {"charts", "done"}
  /\ pc \in {"done", "exit", "crashed"} => pc' = pc

(* C10: the run goes through data provision, the queries, the KPIs, the    *)
(* CSV and HTML outputs and the charts in this order; without plotly, or   *)
(* when a chart call raises, the run still completes, the ten CSV files    *)
(* and compliance_report.html being written before; without duckdb it      *)
(* exits with a message before any data is generated or any file written.  *)
C10_StagesInOrder == [](StagesLeaveTheirOutputs) /\ [][StagesFollowInOrder]_vars

C10_Witness ==
  /\ pc = "done"
  /\ chart_error
  /\ TenCsvFiles \cup {ReportFile} \subseteq files

====
